---- MODULE Spec2Model ----
(***************************************************************************)
(* Model registry and dynamic build of fairseq_signals.models              *)
(* (src/fairseq_signals/models/__init__.py).                               *)
(*                                                                         *)
(* State: the six module-level registries, the hydra ConfigStore "model"   *)
(* group, the __dataclass attribute the decorator sets on each class, and  *)
(* the record of the last call with its outcome.                           *)
(* Configurations are OmegaConf DictConfig values: finite maps from keys   *)
(* to values.  argparse.Namespace configurations are not modelled.         *)
(***************************************************************************)
EXTENDS Integers, Sequences, FiniteSets, TLC

\* ---------------------------------------------------------------- bounds
MaxModels == 2      \* cap on the number of entries of MODEL_REGISTRY
MaxArchs == 2       \* cap on the number of entries of ARCH_MODEL_REGISTRY
MaxRecords == 3     \* cap on the number of records of a source manifest

\* ------------------------------------------------------- input domains
NoneVal == "None"                       \* Python None
Names == {"lstm", "ecg_resnet", "lstm_small"}   \* registered names
BuildNames == {"lstm", "ecg_resnet"}    \* names registered before builds
Classes == {"ClsA", "ClsB", "NotAModel"}        \* decorated classes
Dataclasses == {"SchemaP", "NotASchema"}
ArchFns == {"fill_hidden", "not_callable"}      \* decorated objects
Paths == {"ck1", "ck2", "ck3"}                  \* checkpoint files

EmptyMap == [k \in {} |-> NoneVal]

\* issubclass(cls, BaseModel)
IsBaseModel(cls) == cls \in {"ClsA", "ClsB"}

\* issubclass(dataclass, Dataclass)
IsDataclass(dc) == dc = "SchemaP"

\* callable(fn)
IsCallable(fn) == fn \in {"noop", "fill_hidden"}

\* dataclass(): the schema's fields with their defaults.  The identity
\* field _name is not the registered name: register_model sets it on the
\* node it stores, after construction.
DataclassDefaults(dc) ==
    [_name |-> NoneVal, embed_dim |-> 256, no_pretrained_weights |-> FALSE]

VARIABLES MODEL_REGISTRY, MODEL_DATACLASS_REGISTRY, ARCH_MODEL_REGISTRY,
          ARCH_MODEL_NAME_REGISTRY, ARCH_MODEL_INV_REGISTRY,
          ARCH_CONFIG_REGISTRY, CONFIG_STORE, CLS_DATACLASS, last

\* convert_to_clocs_manifest.main: the records read from the source
\* manifest so far, the locals of main, the lines written to the
\* destination manifest, and the position in main
VARIABLES f_in, fnames, sizes, segments, f_out, pc

manifest_vars == <<f_in, fnames, sizes, segments, f_out, pc>>

vars == <<MODEL_REGISTRY, MODEL_DATACLASS_REGISTRY, ARCH_MODEL_REGISTRY,
          ARCH_MODEL_NAME_REGISTRY, ARCH_MODEL_INV_REGISTRY,
          ARCH_CONFIG_REGISTRY, CONFIG_STORE, CLS_DATACLASS, last,
          manifest_vars>>

\* The stores as one value, so that a handler is a function of the stores.
Stores ==
    [MODEL_REGISTRY |-> MODEL_REGISTRY,
     MODEL_DATACLASS_REGISTRY |-> MODEL_DATACLASS_REGISTRY,
     ARCH_MODEL_REGISTRY |-> ARCH_MODEL_REGISTRY,
     ARCH_MODEL_NAME_REGISTRY |-> ARCH_MODEL_NAME_REGISTRY,
     ARCH_MODEL_INV_REGISTRY |-> ARCH_MODEL_INV_REGISTRY,
     ARCH_CONFIG_REGISTRY |-> ARCH_CONFIG_REGISTRY,
     CONFIG_STORE |-> CONFIG_STORE,
     CLS_DATACLASS |-> CLS_DATACLASS]

SetStores(R) ==
    /\ MODEL_REGISTRY' = R.MODEL_REGISTRY
    /\ MODEL_DATACLASS_REGISTRY' = R.MODEL_DATACLASS_REGISTRY
    /\ ARCH_MODEL_REGISTRY' = R.ARCH_MODEL_REGISTRY
    /\ ARCH_MODEL_NAME_REGISTRY' = R.ARCH_MODEL_NAME_REGISTRY
    /\ ARCH_MODEL_INV_REGISTRY' = R.ARCH_MODEL_INV_REGISTRY
    /\ ARCH_CONFIG_REGISTRY' = R.ARCH_CONFIG_REGISTRY
    /\ CONFIG_STORE' = R.CONFIG_STORE
    /\ CLS_DATACLASS' = R.CLS_DATACLASS

\* d[k] = v
Put(d, k, v) == (k :> v) @@ d

\* SetDefaultAppend inserting at the front of the list
SetDefaultAppend_at_front(d, k, v) ==
    Put(d, k, <<v>> \o (IF k \in DOMAIN d THEN d[k] ELSE <<>>))

\* d.setdefault(k, []).append(v)
SetDefaultAppend(d, k, v) ==
    Put(d, k, Append(IF k \in DOMAIN d THEN d[k] ELSE <<>>, v))

\* ------------------------------------------------------- registration
\* register_model_arch_fn without the inverse index
register_model_arch_fn_no_inverse(R, model_name, arch_name, fn) ==
    IF model_name \notin DOMAIN R.MODEL_REGISTRY
    THEN [err |-> "UnknownModel", R |-> R]
    ELSE IF arch_name \in DOMAIN R.ARCH_MODEL_REGISTRY
    THEN [err |-> "DuplicateRegistration", R |-> R]
    ELSE IF ~IsCallable(fn)
    THEN [err |-> "NotCallable", R |-> R]
    ELSE [err |-> "none",
          R |-> [R EXCEPT
                   !.ARCH_MODEL_REGISTRY =
                       Put(@, arch_name, R.MODEL_REGISTRY[model_name]),
                   !.ARCH_MODEL_NAME_REGISTRY = Put(@, arch_name, model_name),
                   !.ARCH_CONFIG_REGISTRY = Put(@, arch_name, fn)]]

\* register_model_arch_fn without the duplicate check: the later one wins
register_model_arch_fn_no_dup_check(R, model_name, arch_name, fn) ==
    IF model_name \notin DOMAIN R.MODEL_REGISTRY
    THEN [err |-> "UnknownModel", R |-> R]
    ELSE IF ~IsCallable(fn)
    THEN [err |-> "NotCallable", R |-> R]
    ELSE [err |-> "none",
          R |-> [R EXCEPT
                   !.ARCH_MODEL_REGISTRY =
                       Put(@, arch_name, R.MODEL_REGISTRY[model_name]),
                   !.ARCH_MODEL_NAME_REGISTRY = Put(@, arch_name, model_name),
                   !.ARCH_MODEL_INV_REGISTRY =
                       SetDefaultAppend(@, model_name, arch_name),
                   !.ARCH_CONFIG_REGISTRY = Put(@, arch_name, fn)]]

\* register_model_arch_fn with the duplicate check ahead of the model check
register_model_arch_fn_dup_first(R, model_name, arch_name, fn) ==
    IF arch_name \in DOMAIN R.ARCH_MODEL_REGISTRY
    THEN [err |-> "DuplicateRegistration", R |-> R]
    ELSE IF model_name \notin DOMAIN R.MODEL_REGISTRY
    THEN [err |-> "UnknownModel", R |-> R]
    ELSE IF ~IsCallable(fn)
    THEN [err |-> "NotCallable", R |-> R]
    ELSE [err |-> "none",
          R |-> [R EXCEPT
                   !.ARCH_MODEL_REGISTRY =
                       Put(@, arch_name, R.MODEL_REGISTRY[model_name]),
                   !.ARCH_MODEL_NAME_REGISTRY = Put(@, arch_name, model_name),
                   !.ARCH_MODEL_INV_REGISTRY =
                       SetDefaultAppend(@, model_name, arch_name),
                   !.ARCH_CONFIG_REGISTRY = Put(@, arch_name, fn)]]

\* register_model_architecture(model_name, arch_name)(fn)
register_model_arch_fn(R, model_name, arch_name, fn) ==
    IF model_name \notin DOMAIN R.MODEL_REGISTRY
    THEN [err |-> "UnknownModel", R |-> R]
    ELSE IF arch_name \in DOMAIN R.ARCH_MODEL_REGISTRY
    THEN [err |-> "DuplicateRegistration", R |-> R]
    ELSE IF ~IsCallable(fn)
    THEN [err |-> "NotCallable", R |-> R]
    ELSE [err |-> "none",
          R |-> [R EXCEPT
                   !.ARCH_MODEL_REGISTRY =
                       Put(@, arch_name, R.MODEL_REGISTRY[model_name]),
                   !.ARCH_MODEL_NAME_REGISTRY = Put(@, arch_name, model_name),
                   !.ARCH_MODEL_INV_REGISTRY =
                       SetDefaultAppend(@, model_name, arch_name),
                   !.ARCH_CONFIG_REGISTRY = Put(@, arch_name, fn)]]

\* node = dataclass(); node._name = name
ConfigNode(name, dc) == [DataclassDefaults(dc) EXCEPT !._name = name]

\* register_model_cls without the duplicate check: the later class wins
register_model_cls_overwrite(R, name, cls, dataclass) ==
    IF ~IsBaseModel(cls)
    THEN [err |-> "TypeMismatch", R |-> R]
    ELSE LET R1 == [R EXCEPT !.MODEL_REGISTRY = Put(@, name, cls)] IN
         IF dataclass # NoneVal /\ ~IsDataclass(dataclass)
         THEN [err |-> "InvalidSchema", R |-> R1]
         ELSE LET R2 == [R1 EXCEPT !.CLS_DATACLASS = Put(@, cls, dataclass)] IN
              IF dataclass = NoneVal
              THEN [err |-> "none", R |-> R2]
              ELSE LET R3 == [R2 EXCEPT
                                !.MODEL_DATACLASS_REGISTRY =
                                    Put(@, name, dataclass),
                                !.CONFIG_STORE =
                                    Put(@, name, ConfigNode(name, dataclass))]
                   IN register_model_arch_fn(R3, name, name, "noop")

\* register_model(name, dataclass)(cls)
register_model_cls(R, name, cls, dataclass) ==
    IF name \in DOMAIN R.MODEL_REGISTRY
    THEN [err |-> "DuplicateRegistration", R |-> R]
    ELSE IF ~IsBaseModel(cls)
    THEN [err |-> "TypeMismatch", R |-> R]
    ELSE LET R1 == [R EXCEPT !.MODEL_REGISTRY = Put(@, name, cls)] IN
         IF dataclass # NoneVal /\ ~IsDataclass(dataclass)
         THEN [err |-> "InvalidSchema", R |-> R1]
         ELSE LET R2 == [R1 EXCEPT !.CLS_DATACLASS = Put(@, cls, dataclass)] IN
              IF dataclass = NoneVal
              THEN [err |-> "none", R |-> R2]
              ELSE LET R3 == [R2 EXCEPT
                                !.MODEL_DATACLASS_REGISTRY =
                                    Put(@, name, dataclass),
                                !.CONFIG_STORE =
                                    Put(@, name, ConfigNode(name, dataclass))]
                   IN register_model_arch_fn(R3, name, name, "noop")

\* ---------------------------------------------------------------- build
\* getattr(cfg, k, None)
Get(cfg, k) == IF k \in DOMAIN cfg THEN cfg[k] ELSE NoneVal

\* Python truth value of a string or None
Truthy(v) == v \notin {NoneVal, ""}

\* getattr(cfg, "_name", None) or getattr(cfg, "arch", None)
ModelTypeOf(cfg) ==
    IF Truthy(Get(cfg, "_name")) THEN cfg["_name"] ELSE Get(cfg, "arch")

\* next(iter(cfg)) of a config with one key
OnlyKey(cfg) == CHOOSE k \in DOMAIN cfg : TRUE

\* ResolveModel falling back on MODEL_REGISTRY for a bare model name
ResolveModel_any_model_name(R, model_type) ==
    IF model_type \in DOMAIN R.ARCH_MODEL_REGISTRY
    THEN R.ARCH_MODEL_REGISTRY[model_type]
    ELSE IF model_type \in DOMAIN R.MODEL_REGISTRY
    THEN R.MODEL_REGISTRY[model_type]
    ELSE NoneVal

\* ResolveModel with the schema-driven lookup ahead of the legacy one
ResolveModel_schema_first(R, model_type) ==
    IF model_type \in DOMAIN R.MODEL_DATACLASS_REGISTRY
    THEN R.MODEL_REGISTRY[model_type]
    ELSE IF model_type \in DOMAIN R.ARCH_MODEL_REGISTRY
    THEN R.ARCH_MODEL_REGISTRY[model_type]
    ELSE NoneVal

\* the class build_model selects for a model type, None when there is none
ResolveModel(R, model_type) ==
    IF model_type \in DOMAIN R.ARCH_MODEL_REGISTRY
    THEN R.ARCH_MODEL_REGISTRY[model_type]
    ELSE IF model_type \in DOMAIN R.MODEL_DATACLASS_REGISTRY
    THEN R.MODEL_REGISTRY[model_type]
    ELSE NoneVal

\* merge_with_parent(dc(), cfg, remove_missing): the caller's fields merged
\* onto the schema defaults, caller values winning.  A field absent from the
\* defaults is rejected unless remove_missing is set, and is then left out
\* of the merged config.
merge_with_parent(defaults, cfg, remove_missing) ==
    LET extra == DOMAIN cfg \ DOMAIN defaults IN
    IF extra # {} /\ ~remove_missing
    THEN [err |-> "OverrideRejected", cfg |-> cfg]
    ELSE [err |-> "none",
          cfg |-> [k \in DOMAIN defaults |->
                     IF k \in DOMAIN cfg THEN cfg[k] ELSE defaults[k]]]

\* the registered architecture functions, applied to cfg in place:
\* noop (register_model) and a defaults-filling preset of the kind the
\* docstring of register_model_architecture shows
ArchApply(fn, cfg) ==
    IF fn = "fill_hidden" /\ "hidden_dim" \notin DOMAIN cfg
    THEN ("hidden_dim" :> 128) @@ cfg
    ELSE cfg

\* Reconcile with the architecture function tried before the schema
Reconcile_arch_first(R, model_type, cfg, from_checkpoint) ==
    IF model_type \in DOMAIN R.ARCH_CONFIG_REGISTRY
    THEN LET fn == R.ARCH_CONFIG_REGISTRY[model_type] IN
         [err |-> "none", cfg |-> ArchApply(fn, cfg),
          events |-> <<"arch_fn">>, applied |-> <<fn>>]
    ELSE IF model_type \in DOMAIN R.MODEL_DATACLASS_REGISTRY
    THEN LET dc == R.MODEL_DATACLASS_REGISTRY[model_type]
             m == merge_with_parent(DataclassDefaults(dc), cfg,
                                    from_checkpoint)
         IN [err |-> m.err, cfg |-> m.cfg,
             events |-> <<"merge_with_parent">>, applied |-> <<>>]
    ELSE [err |-> "none", cfg |-> cfg, events |-> <<>>, applied |-> <<>>]

\* Reconcile with the legacy branch left out
Reconcile_no_arch_fn(R, model_type, cfg, from_checkpoint) ==
    IF model_type \in DOMAIN R.MODEL_DATACLASS_REGISTRY
    THEN LET dc == R.MODEL_DATACLASS_REGISTRY[model_type]
             m == merge_with_parent(DataclassDefaults(dc), cfg,
                                    from_checkpoint)
         IN [err |-> m.err, cfg |-> m.cfg,
             events |-> <<"merge_with_parent">>, applied |-> <<>>]
    ELSE [err |-> "none", cfg |-> cfg, events |-> <<>>, applied |-> <<>>]

\* build_model, config reconciliation: schema defaults, else the
\* architecture function, else nothing
Reconcile(R, model_type, cfg, from_checkpoint) ==
    IF model_type \in DOMAIN R.MODEL_DATACLASS_REGISTRY
    THEN LET dc == R.MODEL_DATACLASS_REGISTRY[model_type]
             m == merge_with_parent(DataclassDefaults(dc), cfg,
                                    from_checkpoint)
         IN [err |-> m.err, cfg |-> m.cfg,
             events |-> <<"merge_with_parent">>, applied |-> <<>>]
    ELSE IF model_type \in DOMAIN R.ARCH_CONFIG_REGISTRY
    THEN LET fn == R.ARCH_CONFIG_REGISTRY[model_type] IN
         [err |-> "none", cfg |-> ArchApply(fn, cfg),
          events |-> <<"arch_fn">>, applied |-> <<fn>>]
    ELSE [err |-> "none", cfg |-> cfg, events |-> <<>>, applied |-> <<>>]

\* the parameters a freshly built instance of a class declares
InitParams(model) ==
    IF model = "ClsA" THEN [w |-> 0] ELSE [w |-> 0, b |-> 0]

\* model.build_model(cfg, task)
ModelBuild(model, cfg) ==
    [cls |-> model, cfg |-> cfg, params |-> InitParams(model)]

NoInstance == [cls |-> NoneVal, cfg |-> EmptyMap, params |-> EmptyMap]

\* checkpoint_utils.load_checkpoint_to_cpu(path): the checkpoint files
load_checkpoint_to_cpu(path) ==
    IF path = "ck1"
    THEN [cfg |-> [model |-> [_name |-> "ecg_resnet", embed_dim |-> 512,
                              no_pretrained_weights |-> FALSE]],
          model |-> [w |-> 7]]
    ELSE IF path = "ck2"
    THEN [cfg |-> [model |-> [_name |-> "ecg_resnet", hidden_dim |-> 64,
                              no_pretrained_weights |-> TRUE]],
          model |-> [w |-> 7, b |-> 9]]
    ELSE [cfg |-> [model |-> [arch |-> "lstm", embed_dim |-> 512]],
          model |-> [w |-> 5]]

\* model_instance.load_state_dict(state_dict, strict)
load_state_dict(instance, state_dict, strict) ==
    IF strict /\ DOMAIN state_dict # DOMAIN instance.params
    THEN [err |-> "WeightMismatch", instance |-> instance]
    ELSE [err |-> "none",
          instance |-> [instance EXCEPT !.params =
              [k \in DOMAIN instance.params |->
                  IF k \in DOMAIN state_dict THEN state_dict[k]
                  ELSE instance.params[k]]]]

\* RestoreWeights whenever a path is given, from_checkpoint or not
RestoreWeights_path_only(instance, from_checkpoint, checkpoint_path) ==
    IF checkpoint_path # NoneVal
    THEN LET state == load_checkpoint_to_cpu(checkpoint_path)
             l == load_state_dict(instance, state.model, TRUE)
         IN [err |-> l.err, instance |-> l.instance,
             events |-> <<"load_checkpoint", "load_state_dict">>]
    ELSE [err |-> "none", instance |-> instance, events |-> <<>>]

\* RestoreWeights with strict=False
RestoreWeights_non_strict(instance, from_checkpoint, checkpoint_path) ==
    IF checkpoint_path # NoneVal /\ from_checkpoint
    THEN LET state == load_checkpoint_to_cpu(checkpoint_path)
             l == load_state_dict(instance, state.model, FALSE)
         IN [err |-> l.err, instance |-> l.instance,
             events |-> <<"load_checkpoint", "load_state_dict">>]
    ELSE [err |-> "none", instance |-> instance, events |-> <<>>]

\* build_model, after model.build_model: restore the weights if asked to
RestoreWeights(instance, from_checkpoint, checkpoint_path) ==
    IF checkpoint_path # NoneVal /\ from_checkpoint
    THEN LET state == load_checkpoint_to_cpu(checkpoint_path)
             l == load_state_dict(instance, state.model, TRUE)
         IN [err |-> l.err, instance |-> l.instance,
             events |-> <<"load_checkpoint", "load_state_dict">>]
    ELSE [err |-> "none", instance |-> instance, events |-> <<>>]

\* the outcome of a build call
Outcome(err, mt, model, cfg, events, applied, built, returned, available) ==
    [err |-> err, model_type |-> mt, model |-> model,
     resolved |-> cfg, events |-> events, applied |-> applied,
     constructed |-> built, returned |-> returned,
     available |-> available]

\* Available with the names of MODEL_REGISTRY
Available_model_names(R) == DOMAIN R.MODEL_REGISTRY

\* str(MODEL_DATACLASS_REGISTRY.keys()) of the two diagnostics
Available(R) == DOMAIN R.MODEL_DATACLASS_REGISTRY

\* build_model taking a registered architecture name as a directory too
build_model_dir_any_registry(R, cfg0, from_checkpoint, checkpoint_path) ==
    LET available == Available(R)
        named == ModelTypeOf(cfg0)
        directory == ~Truthy(named) /\ Cardinality(DOMAIN cfg0) = 1
        model_type == IF directory THEN OnlyKey(cfg0) ELSE named
    IN
    IF directory /\ model_type \notin DOMAIN R.MODEL_DATACLASS_REGISTRY
                 /\ model_type \notin DOMAIN R.ARCH_MODEL_REGISTRY
    THEN Outcome("UnresolvableModelType", model_type, NoneVal, cfg0, <<>>,
                 <<>>, NoInstance, NoInstance, available)
    ELSE
    LET cfg == IF directory THEN cfg0[model_type] ELSE cfg0
        model == ResolveModel(R, model_type)
        rec == Reconcile(R, model_type, cfg, from_checkpoint)
    IN
    IF rec.err # "none"
    THEN Outcome(rec.err, model_type, model, cfg, rec.events, rec.applied,
                 NoInstance, NoInstance, available)
    ELSE IF model = NoneVal
    THEN Outcome(IF model_type = NoneVal THEN "TypeError"
                 ELSE "ModelTypeNotFound",
                 model_type, model, rec.cfg, rec.events, rec.applied,
                 NoInstance, NoInstance, available)
    ELSE
    LET model_instance == ModelBuild(model, rec.cfg)
        w == RestoreWeights(model_instance, from_checkpoint, checkpoint_path)
    IN Outcome(w.err, model_type, model, rec.cfg,
               rec.events \o <<"build_model">> \o w.events, rec.applied,
               model_instance,
               IF w.err = "none" THEN w.instance ELSE NoInstance,
               available)

\* build_model(cfg, task, from_checkpoint, checkpoint_path)
build_model(R, cfg0, from_checkpoint, checkpoint_path) ==
    LET available == Available(R)
        named == ModelTypeOf(cfg0)
        directory == ~Truthy(named) /\ Cardinality(DOMAIN cfg0) = 1
        model_type == IF directory THEN OnlyKey(cfg0) ELSE named
    IN
    IF directory /\ model_type \notin DOMAIN R.MODEL_DATACLASS_REGISTRY
    THEN Outcome("UnresolvableModelType", model_type, NoneVal, cfg0, <<>>,
                 <<>>, NoInstance, NoInstance, available)
    ELSE
    LET cfg == IF directory THEN cfg0[model_type] ELSE cfg0
        model == ResolveModel(R, model_type)
        rec == Reconcile(R, model_type, cfg, from_checkpoint)
    IN
    IF rec.err # "none"
    THEN Outcome(rec.err, model_type, model, cfg, rec.events, rec.applied,
                 NoInstance, NoInstance, available)
    ELSE IF model = NoneVal
    THEN Outcome(IF model_type = NoneVal THEN "TypeError"
                 ELSE "ModelTypeNotFound",
                 model_type, model, rec.cfg, rec.events, rec.applied,
                 NoInstance, NoInstance, available)
    ELSE
    LET model_instance == ModelBuild(model, rec.cfg)
        w == RestoreWeights(model_instance, from_checkpoint, checkpoint_path)
    IN Outcome(w.err, model_type, model, rec.cfg,
               rec.events \o <<"build_model">> \o w.events, rec.applied,
               model_instance,
               IF w.err = "none" THEN w.instance ELSE NoInstance,
               available)

\* ForceNoPretrained when a missing attribute reads as None
ForceNoPretrained_add_flag(model_cfg) ==
    IF "no_pretrained_weights" \notin DOMAIN model_cfg
       \/ ~model_cfg["no_pretrained_weights"]
    THEN ("no_pretrained_weights" :> TRUE) @@ model_cfg
    ELSE model_cfg

\* model_cfg of build_model_from_checkpoint, after the flag is forced
ForceNoPretrained(model_cfg) ==
    IF "no_pretrained_weights" \in DOMAIN model_cfg
       /\ ~model_cfg["no_pretrained_weights"]
    THEN [model_cfg EXCEPT !["no_pretrained_weights"] = TRUE]
    ELSE model_cfg

\* build_model_from_checkpoint(checkpoint_path)
build_model_from_checkpoint(R, checkpoint_path) ==
    LET state == load_checkpoint_to_cpu(checkpoint_path)
        model_cfg == ForceNoPretrained(state.cfg.model)
        b == build_model(R, model_cfg, TRUE, checkpoint_path)
    IN [call |-> [cfg |-> model_cfg, from_checkpoint |-> TRUE,
                  checkpoint_path |-> checkpoint_path],
        out |-> [b EXCEPT !.events = <<"load_checkpoint">> \o @]]

\* the calls of build_model: every configuration shape without a
\* checkpoint, and the configurations a checkpoint is restored into
Overrides ==
    {EmptyMap, [embed_dim |-> 512], [hidden_dim |-> 64],
     [embed_dim |-> 512, hidden_dim |-> 64]}

IdentityForms ==
    {[_name |-> n] : n \in BuildNames}
    \cup {[arch |-> n] : n \in BuildNames}
    \cup {[_name |-> "ecg_resnet", arch |-> "lstm"],
          [_name |-> NoneVal, arch |-> "lstm"],
          [arch |-> "unknown_arch_xyz"], EmptyMap}

Cfgs ==
    {i @@ o : i \in IdentityForms, o \in Overrides}
    \cup {n :> o : n \in BuildNames \cup {"unknown_arch_xyz"},
                   o \in {EmptyMap, [embed_dim |-> 512]}}

CheckpointCfgs ==
    {[_name |-> "ecg_resnet"], [_name |-> "ecg_resnet", hidden_dim |-> 64],
     [arch |-> "lstm"], [arch |-> "ecg_resnet"]}

BuildCalls ==
    (Cfgs \X BOOLEAN \X {NoneVal})
    \cup (CheckpointCfgs \X BOOLEAN \X {"ck1", "ck2"})

NoOutcome ==
    Outcome("none", NoneVal, NoneVal, EmptyMap, <<>>, <<>>, NoInstance,
            NoInstance, {})

NoCall == [cfg |-> EmptyMap, from_checkpoint |-> FALSE,
           checkpoint_path |-> NoneVal]

Init ==
    /\ MODEL_REGISTRY = EmptyMap
    /\ MODEL_DATACLASS_REGISTRY = EmptyMap
    /\ ARCH_MODEL_REGISTRY = EmptyMap
    /\ ARCH_MODEL_NAME_REGISTRY = EmptyMap
    /\ ARCH_MODEL_INV_REGISTRY = EmptyMap
    /\ ARCH_CONFIG_REGISTRY = EmptyMap
    /\ CONFIG_STORE = EmptyMap
    /\ CLS_DATACLASS = EmptyMap
    /\ last = [op |-> "init", name |-> NoneVal, arch |-> NoneVal,
               path |-> NoneVal, call |-> NoCall, out |-> NoOutcome]
    /\ f_in = <<>>
    /\ fnames = <<>>
    /\ sizes = EmptyMap
    /\ segments = <<>>
    /\ f_out = <<>>
    /\ pc = "read"

RegisterModel(name, cls, dataclass) ==
    /\ \/ name \in DOMAIN MODEL_REGISTRY
       \/ Cardinality(DOMAIN MODEL_REGISTRY) < MaxModels
    /\ LET r == register_model_cls(Stores, name, cls, dataclass) IN
       /\ SetStores(r.R)
       /\ last' = [op |-> "register_model", name |-> name, arch |-> NoneVal,
                   path |-> NoneVal, call |-> NoCall,
                   out |-> [NoOutcome EXCEPT !.err = r.err]]
    /\ UNCHANGED manifest_vars

RegisterModelArchitecture(model_name, arch_name, fn) ==
    /\ \/ arch_name \in DOMAIN ARCH_MODEL_REGISTRY
       \/ Cardinality(DOMAIN ARCH_MODEL_REGISTRY) < MaxArchs
    /\ LET r == register_model_arch_fn(Stores, model_name, arch_name, fn) IN
       /\ SetStores(r.R)
       /\ last' = [op |-> "register_model_architecture", name |-> model_name,
                   arch |-> arch_name, path |-> NoneVal, call |-> NoCall,
                   out |-> [NoOutcome EXCEPT !.err = r.err]]
    /\ UNCHANGED manifest_vars

\* BuildModel taking the architecture function out of its registry
BuildModel_pops_arch_fn(cfg, from_checkpoint, checkpoint_path) ==
    LET out == build_model(Stores, cfg, from_checkpoint, checkpoint_path) IN
    /\ last' = [op |-> "build_model", name |-> NoneVal, arch |-> NoneVal,
                path |-> checkpoint_path,
                call |-> [cfg |-> cfg, from_checkpoint |-> from_checkpoint,
                          checkpoint_path |-> checkpoint_path],
                out |-> out]
    /\ SetStores([Stores EXCEPT !.ARCH_CONFIG_REGISTRY =
                     [a \in DOMAIN @ \ {out.model_type} |-> @[a]]])
    /\ UNCHANGED manifest_vars

BuildModel(cfg, from_checkpoint, checkpoint_path) ==
    /\ last' = [op |-> "build_model", name |-> NoneVal, arch |-> NoneVal,
                path |-> checkpoint_path,
                call |-> [cfg |-> cfg, from_checkpoint |-> from_checkpoint,
                          checkpoint_path |-> checkpoint_path],
                out |-> build_model(Stores, cfg, from_checkpoint,
                                    checkpoint_path)]
    /\ SetStores(Stores)
    /\ UNCHANGED manifest_vars

BuildModelFromCheckpoint(checkpoint_path) ==
    /\ LET b == build_model_from_checkpoint(Stores, checkpoint_path) IN
       last' = [op |-> "build_model_from_checkpoint", name |-> NoneVal,
                arch |-> NoneVal, path |-> checkpoint_path,
                call |-> b.call, out |-> b.out]
    /\ SetStores(Stores)
    /\ UNCHANGED manifest_vars

\* ------------------------------------------------- manifest converter
\* strings of the manifest are sequences of characters
Tab == "\t"
Digits == <<"0", "1", "2", "3", "4", "5", "6", "7", "8", "9">>

\* s.rindex("_")
RIndex(s) == CHOOSE i \in DOMAIN s :
                /\ s[i] = "_"
                /\ \A j \in DOMAIN s : j > i => s[j] # "_"

\* int(s) of a string of decimal digits
RECURSIVE StrToInt(_)
StrToInt(s) ==
    IF s = <<>> THEN 0
    ELSE 10 * StrToInt(SubSeq(s, 1, Len(s) - 1))
         + (CHOOSE d \in 0..9 : Digits[d + 1] = s[Len(s)])

\* str(n) of a natural number
RECURSIVE IntToStr(_)
IntToStr(n) ==
    IF n < 10 THEN <<Digits[n + 1]>>
    ELSE IntToStr(n \div 10) \o <<Digits[(n % 10) + 1]>>

\* items[0][:items[0].rindex("_")]
Folder(fname) == SubSeq(fname, 1, RIndex(fname) - 1)

\* int(items[0][items[0].rindex("_") + 1:-4])
Segment(fname) == StrToInt(SubSeq(fname, RIndex(fname) + 1, Len(fname) - 4))

\* the position of folder among the keys of the dict segments, 0 if absent
KeyIndex(dict, folder) ==
    IF \E i \in DOMAIN dict : dict[i].folder = folder
    THEN CHOOSE i \in DOMAIN dict : dict[i].folder = folder
    ELSE 0

\* segments[folder].append(segment), or segments[folder] = [segment]
AddSegment(dict, folder, segment) ==
    LET i == KeyIndex(dict, folder) IN
    IF i # 0
    THEN [dict EXCEPT ![i].segs = Append(@, segment)]
    ELSE Append(dict, [folder |-> folder, segs |-> <<segment>>])

\* a sorted list with one more element
RECURSIVE Insert(_, _)
Insert(sorted, x) ==
    IF sorted = <<>> THEN <<x>>
    ELSE IF x < sorted[1] THEN <<x>> \o sorted
    ELSE <<sorted[1]>> \o Insert(Tail(sorted), x)

\* SortSegments left out: the list in the order read
SortSegments_as_read(segment) == segment

\* segment.sort()
RECURSIVE SortSegments(_)
SortSegments(segment) ==
    IF segment = <<>> THEN <<>>
    ELSE Insert(SortSegments(SubSeq(segment, 1, Len(segment) - 1)),
                segment[Len(segment)])

\* ','.join(str(seg) for seg in segment)
RECURSIVE JoinSegments(_)
JoinSegments(segment) ==
    IF Len(segment) = 1 THEN IntToStr(segment[1])
    ELSE IntToStr(segment[1]) \o <<",">> \o JoinSegments(Tail(segment))

\* the lines the last loop of main prints, one per dict entry with more
\* than one segment, in dict order
RECURSIVE GroupLines(_, _)
GroupLines(dict, size_of) ==
    IF dict = <<>> THEN <<>>
    ELSE LET fname == dict[1].folder
             segment == dict[1].segs
             rest == GroupLines(Tail(dict), size_of)
         IN IF Len(segment) <= 1 THEN rest
            ELSE <<fname \o <<Tab>> \o size_of[fname] \o <<Tab>>
                     \o JoinSegments(SortSegments(segment))>> \o rest

\* the first line of the source manifest and --ext
DirPath == <<"/", "d">>
Ext == <<"m", "a", "t">>

\* the records of the source manifest: first column and size
MatNames ==
    {<<"a", "_", "1", ".", "m", "a", "t">>,
     <<"a", "_", "2", ".", "m", "a", "t">>,
     <<"a", "_", "1", "0", ".", "m", "a", "t">>,
     <<"b", "_", "7", ".", "m", "a", "t">>,
     <<"a", "_", "b", "_", "0", "3", ".", "m", "a", "t">>}
SizeStrs == {<<"1", "0", "0">>, <<"9", "9">>}

\* one pass of the reading loop of main
ReadRecord(name, size) ==
    /\ pc = "read"
    /\ Len(f_in) < MaxRecords
    /\ f_in' = Append(f_in, [name |-> name, size |-> size])
    /\ fnames' = Append(fnames, name)
    /\ sizes' = Put(sizes, Folder(name), size)
    /\ segments' = AddSegment(segments, Folder(name), Segment(name))
    /\ UNCHANGED <<f_out, pc, last>>
    /\ SetStores(Stores)

\* main after the source manifest is read: write the destination manifest
WriteManifest ==
    /\ pc = "read"
    /\ f_out' = <<DirPath, Ext>> \o GroupLines(segments, sizes)
    /\ pc' = "done"
    /\ UNCHANGED <<f_in, fnames, sizes, segments, last>>
    /\ SetStores(Stores)

NextManifest ==
    \/ \E name \in MatNames, size \in SizeStrs : ReadRecord(name, size)
    \/ WriteManifest

SpecManifest == Init /\ [][NextManifest]_vars

\* registration at module load time, any names
NextReg ==
    \/ \E name \in Names, cls \in Classes,
          dataclass \in Dataclasses \cup {NoneVal} :
          RegisterModel(name, cls, dataclass)
    \/ \E model_name \in Names, arch_name \in Names, fn \in ArchFns :
          RegisterModelArchitecture(model_name, arch_name, fn)

SpecReg == Init /\ [][NextReg]_vars

\* registration and builds in any order
Next ==
    \/ \E name \in BuildNames, cls \in Classes,
          dataclass \in Dataclasses \cup {NoneVal} :
          RegisterModel(name, cls, dataclass)
    \/ \E model_name \in BuildNames, arch_name \in BuildNames,
          fn \in ArchFns :
          RegisterModelArchitecture(model_name, arch_name, fn)
    \/ \E c \in BuildCalls : BuildModel(c[1], c[2], c[3])
    \/ \E checkpoint_path \in Paths : BuildModelFromCheckpoint(checkpoint_path)

Spec == Init /\ [][Next]_vars
\* ------------------------------------------------------------- claims

\* C1: a register_model call under a name that is already in MODEL_REGISTRY
\* fails with DuplicateRegistration and leaves every store as it was.
C1_DuplicateModelRejected ==
    [][(last'.op = "register_model" /\ last'.name \in DOMAIN MODEL_REGISTRY)
       => (last'.out.err = "DuplicateRegistration" /\ Stores' = Stores)]_vars

\* a duplicate register_model call was made, after an architecture was
\* registered too
C1_Witness ==
    /\ last.op = "register_model"
    /\ last.out.err = "DuplicateRegistration"
    /\ last.name \in DOMAIN MODEL_REGISTRY
    /\ DOMAIN ARCH_MODEL_REGISTRY # {}

\* C2: register_model_architecture for a model name that is not in
\* MODEL_REGISTRY fails with UnknownModel, whatever was registered before,
\* and records nothing in the forward, inverse and function maps.
C2_UnknownModelRejected ==
    [][(last'.op = "register_model_architecture"
        /\ last'.name \notin DOMAIN MODEL_REGISTRY)
       => (/\ last'.out.err = "UnknownModel"
           /\ ARCH_MODEL_REGISTRY' = ARCH_MODEL_REGISTRY
           /\ ARCH_MODEL_NAME_REGISTRY' = ARCH_MODEL_NAME_REGISTRY
           /\ ARCH_MODEL_INV_REGISTRY' = ARCH_MODEL_INV_REGISTRY
           /\ ARCH_CONFIG_REGISTRY' = ARCH_CONFIG_REGISTRY)]_vars

\* an architecture was refused for an unknown model although its name is
\* already taken by an architecture of another model
C2_Witness ==
    /\ last.op = "register_model_architecture"
    /\ last.out.err = "UnknownModel"
    /\ last.name \notin DOMAIN MODEL_REGISTRY
    /\ last.arch \in DOMAIN ARCH_MODEL_REGISTRY

\* the last call was a build and last.out is its outcome in these stores
IsBuild == last.op \in {"build_model", "build_model_from_checkpoint"}

Happened(e) == \E i \in DOMAIN last.out.events : last.out.events[i] = e

BothEntries ==
    /\ IsBuild
    /\ last.out.model_type \in DOMAIN ARCH_MODEL_REGISTRY
    /\ last.out.model_type \in DOMAIN MODEL_DATACLASS_REGISTRY

NamedSchemaBuild ==
    /\ last.op = "build_model"
    /\ Truthy(Get(last.call.cfg, "_name"))
    /\ last.call.cfg["_name"] \in DOMAIN MODEL_DATACLASS_REGISTRY

\* C4: build of a config with identity field n, n a model with a schema,
\* hands ModelClass.build the schema defaults with the caller's overrides
\* applied; a field absent from the schema is rejected unless from_checkpoint
\* is set.
C4_DefaultsWithOverrides ==
    NamedSchemaBuild =>
        LET cfg == last.call.cfg
            defaults ==
                DataclassDefaults(MODEL_DATACLASS_REGISTRY[cfg["_name"]])
        IN IF DOMAIN cfg \subseteq DOMAIN defaults
              \/ last.call.from_checkpoint
           THEN /\ Happened("build_model")
                /\ last.out.constructed.cfg = last.out.resolved
                /\ DOMAIN defaults \subseteq DOMAIN last.out.resolved
                /\ \A k \in DOMAIN defaults :
                      last.out.resolved[k] =
                          IF k \in DOMAIN cfg THEN cfg[k] ELSE defaults[k]
           ELSE /\ last.out.err = "OverrideRejected"
                /\ ~Happened("build_model")

\* a build with embed_dim overridden got embed_dim 512 and the schema
\* default of no_pretrained_weights
C4_Witness ==
    /\ NamedSchemaBuild
    /\ "embed_dim" \in DOMAIN last.call.cfg
    /\ Happened("build_model")
    /\ last.out.constructed.cfg["embed_dim"] = 512
    /\ last.out.constructed.cfg["no_pretrained_weights"] = FALSE
    /\ last.out.constructed.cfg["_name"] = last.call.cfg["_name"]

\* C5: for a model name n with a schema, build of the directory form
\* { n: {} } resolves the same config, identity field included, and the same
\* class as build of { "_name": n }.
C5_DirectoryFormSameConfig ==
    \A n \in DOMAIN MODEL_DATACLASS_REGISTRY :
        (last.op = "build_model" /\ last.call.cfg = (n :> EmptyMap)) =>
            LET named == build_model(Stores, [_name |-> n],
                                     last.call.from_checkpoint,
                                     last.call.checkpoint_path)
            IN /\ last.out.resolved = named.resolved
               /\ last.out.model = named.model

\* the build named a model type, by _name or arch, that neither
\* ARCH_MODEL_REGISTRY nor MODEL_DATACLASS_REGISTRY knows
UnknownTypeBuild ==
    /\ last.op = "build_model"
    /\ Truthy(ModelTypeOf(last.call.cfg))
    /\ ModelTypeOf(last.call.cfg) \notin DOMAIN ARCH_MODEL_REGISTRY
    /\ ModelTypeOf(last.call.cfg) \notin DOMAIN MODEL_DATACLASS_REGISTRY

\* C6: build of a config whose model type is in neither the architecture
\* registry nor the schema store fails with ModelTypeNotFound before
\* ModelClass.build and before any checkpoint load, and the diagnostic
\* carries the registered schema names and the requested type.
C6_ModelTypeNotFound ==
    UnknownTypeBuild =>
        /\ last.out.err = "ModelTypeNotFound"
        /\ ~Happened("build_model")
        /\ ~Happened("load_checkpoint")
        /\ last.out.constructed = NoInstance
        /\ last.out.returned = NoInstance
        /\ last.out.available = DOMAIN MODEL_DATACLASS_REGISTRY
        /\ last.out.model_type = ModelTypeOf(last.call.cfg)

\* an unknown type was asked for with a checkpoint to restore, while a
\* schema is registered for some model that is not the only model
C6_Witness ==
    /\ UnknownTypeBuild
    /\ last.call.from_checkpoint
    /\ last.call.checkpoint_path # NoneVal
    /\ last.out.err = "ModelTypeNotFound"
    /\ DOMAIN MODEL_DATACLASS_REGISTRY # {}
    /\ DOMAIN MODEL_DATACLASS_REGISTRY # DOMAIN MODEL_REGISTRY

\* the build named a model type that has an architecture function and no
\* schema
LegacyBuild ==
    /\ last.op = "build_model"
    /\ Truthy(ModelTypeOf(last.call.cfg))
    /\ ModelTypeOf(last.call.cfg) \in DOMAIN ARCH_CONFIG_REGISTRY
    /\ ModelTypeOf(last.call.cfg) \notin DOMAIN MODEL_DATACLASS_REGISTRY

\* C7: on the legacy path build applies the registered architecture function
\* once to the config, without the schema merge, before ModelClass.build: a
\* field the function fills if absent has the preset when the caller left it
\* out and the caller's value otherwise, and nothing else changes.
C7_ArchFunctionApplied ==
    LegacyBuild =>
        LET cfg == last.call.cfg
            fn == ARCH_CONFIG_REGISTRY[ModelTypeOf(cfg)]
            res == last.out.constructed.cfg
        IN /\ last.out.applied = <<fn>>
           /\ ~Happened("merge_with_parent")
           /\ Len(last.out.events) >= 2
           /\ last.out.events[1] = "arch_fn"
           /\ last.out.events[2] = "build_model"
           /\ fn = "noop" => res = cfg
           /\ fn = "fill_hidden" =>
                 /\ DOMAIN res = DOMAIN cfg \cup {"hidden_dim"}
                 /\ \A k \in DOMAIN cfg : res[k] = cfg[k]
                 /\ "hidden_dim" \notin DOMAIN cfg => res["hidden_dim"] = 128

\* a legacy build without hidden_dim was handed hidden_dim = 128
C7_Witness ==
    /\ LegacyBuild
    /\ "hidden_dim" \notin DOMAIN last.call.cfg
    /\ last.out.err = "none"
    /\ last.out.applied = <<"fill_hidden">>
    /\ last.out.returned.cfg["hidden_dim"] = 128

\* the build was asked to restore the weights of a checkpoint
RestoringBuild ==
    /\ IsBuild
    /\ last.call.from_checkpoint
    /\ last.call.checkpoint_path # NoneVal

\* C8: a build with from_checkpoint and a checkpoint path returns an
\* instance whose parameters are exactly the checkpoint's, names and values,
\* or fails; when the parameter names of the instance differ from the
\* checkpoint's it fails and returns no instance.
C8_StrictRestore ==
    RestoringBuild =>
        LET stored == load_checkpoint_to_cpu(last.call.checkpoint_path).model
        IN /\ last.out.err = "none" => last.out.returned.params = stored
           /\ last.out.err # "none" => last.out.returned = NoInstance
           /\ (Happened("build_model")
               /\ DOMAIN last.out.constructed.params # DOMAIN stored)
                 => (last.out.err = "WeightMismatch"
                     /\ last.out.returned = NoInstance)

\* a build restored the stored values over the ones the instance was built
\* with
C8_Witness ==
    /\ RestoringBuild
    /\ last.out.err = "none"
    /\ last.out.returned.params =
          load_checkpoint_to_cpu(last.call.checkpoint_path).model
    /\ last.out.returned.params # last.out.constructed.params

\* C9: build_model_from_checkpoint(path) delegates to build_model with
\* from_checkpoint=True and the same path, on the checkpoint's model config
\* with no_pretrained_weights true when the config has the flag, without the
\* flag when it has not, and every other field as stored.
C9_FromCheckpointDelegates ==
    last.op = "build_model_from_checkpoint" =>
        LET stored == load_checkpoint_to_cpu(last.path).cfg.model
            cfg == last.call.cfg
            b == build_model(Stores, cfg, TRUE, last.path)
        IN /\ last.call.from_checkpoint
           /\ last.call.checkpoint_path = last.path
           /\ DOMAIN cfg = DOMAIN stored
           /\ \A k \in DOMAIN stored :
                 cfg[k] = IF k = "no_pretrained_weights" THEN TRUE
                          ELSE stored[k]
           /\ last.out = [b EXCEPT !.events = <<"load_checkpoint">> \o @]

\* a checkpoint whose config has the flag false was built with the flag true
C9_Witness ==
    /\ last.op = "build_model_from_checkpoint"
    /\ "no_pretrained_weights"
          \in DOMAIN load_checkpoint_to_cpu(last.path).cfg.model
    /\ load_checkpoint_to_cpu(last.path).cfg.model["no_pretrained_weights"]
          = FALSE
    /\ last.call.cfg["no_pretrained_weights"] = TRUE
    /\ last.out.err = "none"

\* C10: every model name with a schema in MODEL_DATACLASS_REGISTRY has
\* exactly one architecture of the same name, whose class is the model's
\* class and whose function is the no-op.
C10_SchemaHasNoopArch ==
    \A n \in DOMAIN MODEL_DATACLASS_REGISTRY :
        /\ n \in DOMAIN ARCH_MODEL_REGISTRY
        /\ ARCH_MODEL_REGISTRY[n] = MODEL_REGISTRY[n]
        /\ ARCH_MODEL_NAME_REGISTRY[n] = n
        /\ ARCH_CONFIG_REGISTRY[n] = "noop"
        /\ \A m \in DOMAIN ARCH_MODEL_INV_REGISTRY :
              Cardinality({i \in DOMAIN ARCH_MODEL_INV_REGISTRY[m] :
                              ARCH_MODEL_INV_REGISTRY[m][i] = n})
                  = (IF m = n THEN 1 ELSE 0)
\* the number of times an architecture name occurs in the inverse lists
Occurrences(a) ==
    LET inv == ARCH_MODEL_INV_REGISTRY
        RECURSIVE Sum(_)
        Sum(ms) ==
            IF ms = {} THEN 0
            ELSE LET m == CHOOSE x \in ms : TRUE IN
                 Cardinality({i \in DOMAIN inv[m] : inv[m][i] = a})
                     + Sum(ms \ {m})
    IN Sum(DOMAIN inv)

\* no architecture name occurs at two places of the inverse lists
ArchNamesOnce ==
    LET inv == ARCH_MODEL_INV_REGISTRY IN
    \A m \in DOMAIN inv : \A n \in DOMAIN inv :
        \A i \in DOMAIN inv[m] : \A j \in DOMAIN inv[n] :
            inv[m][i] = inv[n][j] => (m = n /\ i = j)

\* the last call was register_model_architecture under a taken name
TakenArchName ==
    /\ last'.op = "register_model_architecture"
    /\ last'.arch \in DOMAIN ARCH_MODEL_REGISTRY

\* C11 (as claimed): register_model_architecture under an architecture name
\* that is already taken fails with DuplicateRegistration and changes no
\* store, and each architecture name occurs at most once across the inverse
\* lists.
C11_TakenArchIsDuplicate ==
    [][/\ TakenArchName =>
            (last'.out.err = "DuplicateRegistration" /\ Stores' = Stores)
       /\ ArchNamesOnce']_vars

\* C11 (amended): register_model_architecture under an architecture name
\* that is already taken fails and changes no store, with
\* DuplicateRegistration when the model name is registered and with
\* UnknownModel when it is not; each architecture name occurs at most once
\* across the inverse lists.
C11_TakenArchRejected ==
    [][/\ TakenArchName =>
            /\ last'.out.err =
                  IF last'.name \in DOMAIN MODEL_REGISTRY
                  THEN "DuplicateRegistration" ELSE "UnknownModel"
            /\ Stores' = Stores
       /\ ArchNamesOnce']_vars

\* an architecture was refused because its name is held by the no-op that
\* register_model registered for a schema
C11_Witness ==
    /\ last.op = "register_model_architecture"
    /\ last.out.err = "DuplicateRegistration"
    /\ last.arch \in DOMAIN ARCH_CONFIG_REGISTRY
    /\ ARCH_CONFIG_REGISTRY[last.arch] = "noop"
    /\ last.name # last.arch
    /\ Occurrences(last.arch) = 1

SixStores ==
    <<MODEL_REGISTRY, MODEL_DATACLASS_REGISTRY, ARCH_MODEL_REGISTRY,
      ARCH_MODEL_NAME_REGISTRY, ARCH_MODEL_INV_REGISTRY, ARCH_CONFIG_REGISTRY>>

\* C12: a register_model or register_model_architecture call that fails
\* leaves the six registries as they were before the call.
C12_FailedCallChangesNothing ==
    [][(/\ last'.op \in {"register_model", "register_model_architecture"}
        /\ last'.out.err # "none")
       => SixStores' = SixStores]_vars
\* the build was given a config with one top-level key and no identity field
SingleKeyBuild ==
    /\ last.op = "build_model"
    /\ Cardinality(DOMAIN last.call.cfg) = 1
    /\ "_name" \notin DOMAIN last.call.cfg
    /\ "arch" \notin DOMAIN last.call.cfg

\* C14: for a config with no identity field and exactly one top-level key
\* k, build takes k as the model type and the value under k as the config
\* when k is a schema name, and fails with UnresolvableModelType, listing
\* the schema names and instantiating nothing, when it is not, also when k
\* is a registered architecture name.
C14_SingleKeyConfig ==
    SingleKeyBuild =>
        LET k == CHOOSE x \in DOMAIN last.call.cfg : TRUE
            inner == last.call.cfg[k]
        IN /\ last.out.model_type = k
           /\ last.out.available = DOMAIN MODEL_DATACLASS_REGISTRY
           /\ IF k \in DOMAIN MODEL_DATACLASS_REGISTRY
              THEN /\ Happened("build_model")
                   /\ \A f \in DOMAIN inner :
                         last.out.constructed.cfg[f] = inner[f]
                   /\ k \notin DOMAIN last.out.constructed.cfg
              ELSE /\ last.out.err = "UnresolvableModelType"
                   /\ last.out.events = <<>>
                   /\ last.out.constructed = NoInstance
                   /\ last.out.returned = NoInstance

\* a single-key config named a registered architecture that has no schema
\* and was refused, while another model has a schema
C14_Witness ==
    /\ SingleKeyBuild
    /\ DOMAIN last.call.cfg \subseteq DOMAIN ARCH_MODEL_REGISTRY
    /\ last.out.err = "UnresolvableModelType"
    /\ last.out.available # {}

EventAt(e) == {i \in DOMAIN last.out.events : last.out.events[i] = e}

\* C15: a build that gets as far as ModelClass.build reads a checkpoint and
\* restores the weights exactly when checkpoint_path is given and
\* from_checkpoint is true, after the config reconciliation and after
\* ModelClass.build; otherwise it returns the instance as ModelClass.build
\* made it.  No build reads a checkpoint without both.
C15_RestoreIffAsked ==
    last.op = "build_model" =>
        LET asked == last.call.from_checkpoint
                     /\ last.call.checkpoint_path # NoneVal
            restore == EventAt("load_checkpoint") \cup EventAt("load_state_dict")
            before == EventAt("merge_with_parent") \cup EventAt("arch_fn")
        IN /\ restore # {} => asked
           /\ Happened("build_model") =>
                 /\ asked <=> (Happened("load_checkpoint")
                               /\ Happened("load_state_dict"))
                 /\ \A i \in before : \A j \in EventAt("build_model") : i < j
                 /\ \A j \in EventAt("build_model") : \A k \in restore : j < k
                 /\ ~asked => /\ last.out.err = "none"
                              /\ last.out.returned = last.out.constructed

\* a build merged the schema defaults, built the instance and then restored
\* the checkpoint
C15_Witness ==
    /\ last.op = "build_model"
    /\ last.out.err = "none"
    /\ last.out.events = <<"merge_with_parent", "build_model",
                           "load_checkpoint", "load_state_dict">>
    /\ last.out.returned # last.out.constructed

\* C16: a build_model or build_model_from_checkpoint call, failed or not,
\* leaves the six registries unchanged.
C16_BuildReadsOnly ==
    [][last'.op \in {"build_model", "build_model_from_checkpoint"}
       => SixStores' = SixStores]_vars

\* a build applied a registered architecture function and went through
C16_Witness ==
    /\ last.op = "build_model"
    /\ last.out.err = "none"
    /\ last.out.applied # <<>>
    /\ last.out.model_type \in DOMAIN ARCH_CONFIG_REGISTRY
    /\ DOMAIN MODEL_DATACLASS_REGISTRY # {}

\* every binding of the map before is a binding of the map after
Kept(before, after) ==
    \A k \in DOMAIN before : k \in DOMAIN after /\ after[k] = before[k]

\* every list of the map before is the beginning of its list after
Extended(before, after) ==
    \A k \in DOMAIN before :
        /\ k \in DOMAIN after
        /\ Len(after[k]) >= Len(before[k])
        /\ SubSeq(after[k], 1, Len(before[k])) = before[k]

\* C17: over any sequence of registration and build calls a binding of
\* MODEL_REGISTRY, MODEL_DATACLASS_REGISTRY, ARCH_MODEL_REGISTRY,
\* ARCH_MODEL_NAME_REGISTRY or ARCH_CONFIG_REGISTRY is never changed or
\* removed, and a list of ARCH_MODEL_INV_REGISTRY only grows at its end.
C17_AppendOnly ==
    [][/\ Kept(MODEL_REGISTRY, MODEL_REGISTRY')
       /\ Kept(MODEL_DATACLASS_REGISTRY, MODEL_DATACLASS_REGISTRY')
       /\ Kept(ARCH_MODEL_REGISTRY, ARCH_MODEL_REGISTRY')
       /\ Kept(ARCH_MODEL_NAME_REGISTRY, ARCH_MODEL_NAME_REGISTRY')
       /\ Kept(ARCH_CONFIG_REGISTRY, ARCH_CONFIG_REGISTRY')
       /\ Extended(ARCH_MODEL_INV_REGISTRY, ARCH_MODEL_INV_REGISTRY')]_vars

\* a second architecture was appended to the list of a model
C17_Witness ==
    /\ last.op = "register_model_architecture"
    /\ last.out.err = "none"
    /\ Len(ARCH_MODEL_INV_REGISTRY[last.name]) = 2
    /\ ARCH_MODEL_INV_REGISTRY[last.name][2] = last.arch

\* C18: the three architecture maps have the same keys; the class of every
\* architecture is the class registered for its model name, and the
\* architecture is in that model's inverse list; every key of the inverse
\* map and of the schema store is a registered model name.
C18_StoresConsistent ==
    /\ DOMAIN ARCH_MODEL_NAME_REGISTRY = DOMAIN ARCH_MODEL_REGISTRY
    /\ DOMAIN ARCH_CONFIG_REGISTRY = DOMAIN ARCH_MODEL_REGISTRY
    /\ \A a \in DOMAIN ARCH_MODEL_REGISTRY :
          LET m == ARCH_MODEL_NAME_REGISTRY[a] IN
          /\ m \in DOMAIN MODEL_REGISTRY
          /\ ARCH_MODEL_REGISTRY[a] = MODEL_REGISTRY[m]
          /\ m \in DOMAIN ARCH_MODEL_INV_REGISTRY
          /\ \E i \in DOMAIN ARCH_MODEL_INV_REGISTRY[m] :
                ARCH_MODEL_INV_REGISTRY[m][i] = a
    /\ DOMAIN ARCH_MODEL_INV_REGISTRY \subseteq DOMAIN MODEL_REGISTRY
    /\ DOMAIN MODEL_DATACLASS_REGISTRY \subseteq DOMAIN MODEL_REGISTRY

\* a name is a model with a schema and also an architecture of another
\* model, whose class differs
C18_Witness ==
    \E a \in DOMAIN ARCH_MODEL_REGISTRY :
        /\ a \in DOMAIN MODEL_DATACLASS_REGISTRY
        /\ ARCH_MODEL_NAME_REGISTRY[a] # a
        /\ ARCH_MODEL_REGISTRY[a] # MODEL_REGISTRY[a]
        /\ Len(ARCH_MODEL_INV_REGISTRY[ARCH_MODEL_NAME_REGISTRY[a]]) = 2

\* the model type of the build is a key of the architecture map or of the
\* schema store
TypeHasEntry ==
    \/ last.out.model_type \in DOMAIN ARCH_MODEL_REGISTRY
    \/ last.out.model_type \in DOMAIN MODEL_DATACLASS_REGISTRY

\* neither a schema nor an architecture function is registered for the
\* model type of the build
PassThrough ==
    /\ last.out.model_type \notin DOMAIN MODEL_DATACLASS_REGISTRY
    /\ last.out.model_type \notin DOMAIN ARCH_CONFIG_REGISTRY

\* the build got past the resolution of its model type
TypeResolved == IsBuild /\ last.out.err # "UnresolvableModelType"

GroupOf(name) ==
    CHOOSE p \in {SubSeq(name, 1, k) : k \in 0..Len(name)} :
        \E r \in {SubSeq(name, k, Len(name)) : k \in 1..(Len(name) + 1)} :
            /\ name = p \o <<"_">> \o r
            /\ \A i \in DOMAIN r : r[i] # "_"

\* the number a record carries between the final underscore and the
\* four-character extension
SuffixOf(name) ==
    LET ds == SubSeq(name, Len(GroupOf(name)) + 2, Len(name) - 4)
        RECURSIVE Pow10(_)
        Pow10(e) == IF e = 0 THEN 1 ELSE 10 * Pow10(e - 1)
        RECURSIVE Sum(_)
        Sum(I) == IF I = {} THEN 0
                  ELSE LET i == CHOOSE x \in I : TRUE IN
                       (CHOOSE d \in 0..9 : Digits[d + 1] = ds[i])
                           * Pow10(Len(ds) - i) + Sum(I \ {i})
    IN Sum(DOMAIN ds)

MembersOf(g) == {i \in DOMAIN f_in : GroupOf(f_in[i].name) = g}

\* the groups with at least two records
BigGroups ==
    {g \in {GroupOf(f_in[i].name) : i \in DOMAIN f_in} :
        Cardinality(MembersOf(g)) >= 2}

\* the suffixes of the records I, smallest first
RECURSIVE Ascending(_)
Ascending(I) ==
    IF I = {} THEN <<>>
    ELSE LET m == CHOOSE i \in I :
                    \A j \in I : SuffixOf(f_in[i].name) <= SuffixOf(f_in[j].name)
         IN <<SuffixOf(f_in[m].name)>> \o Ascending(I \ {m})

RECURSIVE CommaJoined(_)
CommaJoined(nums) ==
    IF nums = <<>> THEN <<>>
    ELSE IF Len(nums) = 1 THEN IntToStr(nums[1])
    ELSE CommaJoined(SubSeq(nums, 1, Len(nums) - 1))
         \o <<",">> \o IntToStr(nums[Len(nums)])

\* the line of a group: group, tab, the size of its last record, tab, its
\* suffixes in ascending numeric order joined by commas
LineOf(g) ==
    LET I == MembersOf(g)
        lastrec == CHOOSE i \in I : \A j \in I : j <= i
    IN g \o <<Tab>> \o f_in[lastrec].size \o <<Tab>>
         \o CommaJoined(Ascending(I))

\* C13: after the two header lines the converter writes exactly one line
\* for each group with at least two records and none for any other group;
\* the line is the group, a tab, the size, a tab and the group's numeric
\* suffixes in ascending numeric order joined by commas.
C13_ManifestLines ==
    pc = "done" =>
        /\ Len(f_out) = 2 + Cardinality(BigGroups)
        /\ f_out[1] = DirPath
        /\ f_out[2] = Ext
        /\ \A g \in BigGroups :
              Cardinality({i \in 3..Len(f_out) : f_out[i] = LineOf(g)}) = 1
        /\ \A i \in 3..Len(f_out) : \E g \in BigGroups : f_out[i] = LineOf(g)

\* records a_2.mat and a_1.mat of size 100, read in that order with a
\* record of another group, gave the single line a<TAB>100<TAB>1,2
C13_Witness ==
    /\ pc = "done"
    /\ Len(f_in) = 3
    /\ f_in[1].name = <<"a", "_", "2", ".", "m", "a", "t">>
    /\ f_in[3].name = <<"a", "_", "1", ".", "m", "a", "t">>
    /\ GroupOf(f_in[2].name) # <<"a">>
    /\ f_out = <<DirPath, Ext,
                 <<"a", Tab, "1", "0", "0", Tab, "1", ",", "2">> >>
====
